---- MODULE Spec2Model ----
(***************************************************************************)
(* The execution-trace recorder of tracardi's workflow engine:             *)
(* tracardi/service/wf/domain/debug_info.py.                               *)
(*                                                                         *)
(* A DebugInfo object (the run trace) owns a FlowDebugInfo (flow errors),  *)
(* a dict of DebugNodeInfo (node traces, each with its list of calls) and  *)
(* a dict of DebugEdgeInfo (edge traces, each with its list of activation  *)
(* flags).  Every method is an operator from the receiver and the          *)
(* arguments to a record [self, ret, raised]: the receiver after the call, *)
(* the returned value, and whether the call raised.                        *)
(***************************************************************************)
EXTENDS Integers, Sequences, FiniteSets, TLC

VARIABLES
    di,        \* the DebugInfo instance of the run
    other,     \* the DebugInfo instance of a second, concurrent run
    supplied,  \* history: per edge id, the flags the engine has passed for it
    lastOp     \* history: the last operation invoked, its arguments and result

vars == <<di, other, supplied, lastOp>>

----------------------------------------------------------------------------
(* Bounds of the model. *)

MaxCalls == 2        \* calls recorded in one run (all nodes together)
MaxActive == 3       \* activations recorded in one run (all edges together)
MaxFlowErrors == 1   \* flow-level errors added in one run
MaxTime == 1         \* clock readings range over 0..MaxTime
MaxDetailCalls == 1  \* calls recorded in the call-record specification
MaxRunCalls == 1     \* calls recorded by each of two concurrent runs
MaxRunActive == 2    \* activations recorded by each of two concurrent runs

----------------------------------------------------------------------------
(* Values. *)

\* Python's None.
None == "None"

NodeIds == {"n1", "n2"}

\* Edge ids are strings; the empty string is a falsy id that is not None.
EdgeIds == {"", "e1"}
EdgeArgs == EdgeIds \cup {None}

\* The input edge of a call: an Entity, or None.
InputEdges == {None, "e1"}

Errors == {None, "err"}
Params == {None, "payload"}
Times == 0..MaxTime

\* The empty dict {} and the result of BaseModel.dict() for each sub-object.
EmptyDict == "{}"
ProfileDict == "profile.dict()"
EventDict == "event.dict()"
SessionDict == "session.dict()"

\* A node's run-time object, as far as lines 72-78 inspect it:
\* isinstance(node.object, ActionRunner) and, for each of its three
\* sub-objects, isinstance(<sub-object>, BaseModel).
\* An object that is no ActionRunner either has the three sub-objects or has
\* none of them.
NodeObjects ==
    {o \in [isActionRunner : BOOLEAN, profile : BOOLEAN,
            event : BOOLEAN, session : BOOLEAN] :
        o.isActionRunner \/ (o.profile = o.event /\ o.event = o.session)}

\* Python truthiness of a string-or-None value.
Truthy(x) == x # None /\ x # ""

\* An empty dict.
EmptyMap == [k \in {} |-> None]

----------------------------------------------------------------------------
(* FlowDebugInfo *)

FlowDebugInfo_has_errors(self) ==
    [self |-> self, ret |-> Len(self.error) > 0, raised |-> FALSE]

----------------------------------------------------------------------------
(* DebugNodeInfo *)

\* DebugCallInfo.has_error (debug_call_info.py): the call carries an error.
DebugCallInfo_has_error(call) == call.error # None

\* The loop of DebugNodeInfo.has_errors, from index i on.
RECURSIVE CallsLoop(_, _)
CallsLoop(calls, i) ==
    IF i > Len(calls) THEN FALSE
    ELSE IF DebugCallInfo_has_error(calls[i]) THEN TRUE
    ELSE CallsLoop(calls, i + 1)

\* Variant: the loop keeps the answer of the call it visited last.
DebugNodeInfo_has_errors_LastCallOnly(self) ==
    [self |-> self,
     ret |-> /\ Len(self.calls) > 0
             /\ DebugCallInfo_has_error(self.calls[Len(self.calls)]),
     raised |-> FALSE]

\* Variant: the loop returns the first call's answer.
DebugNodeInfo_has_errors_FirstCall(self) ==
    [self |-> self,
     ret |-> Len(self.calls) > 0 /\ DebugCallInfo_has_error(self.calls[1]),
     raised |-> FALSE]

DebugNodeInfo_has_errors(self) ==
    [self |-> self, ret |-> CallsLoop(self.calls, 1), raised |-> FALSE]

\* The static helper _get_input_params; append_call_info does not call it.
DebugNodeInfo_get_input_params(input_port, input_params) ==
    IF Truthy(input_port)
    THEN [port |-> input_port, value |-> input_params]
    ELSE None

\* Variant: every snapshot is gated by the profile's check.
NewCallInfo_ProfileGatesAll(a) ==
    LET debug_start_time == a.task_start_time - a.flow_start_time
        debug_end_time == a.now - a.flow_start_time
        debug_run_time == debug_end_time - debug_start_time
        obj == a.node.object
    IN  [run |-> a.active,
         profiler |-> [startTime |-> debug_start_time,
                       endTime |-> debug_end_time,
                       runTime |-> debug_run_time],
         input |-> [edge |-> a.input_edge, params |-> a.input_params],
         output |-> [edge |-> a.output_edge, results |-> a.output_params],
         init |-> a.node.init,
         profile |-> IF obj.isActionRunner /\ obj.profile
                     THEN ProfileDict ELSE EmptyDict,
         event |-> IF obj.isActionRunner /\ obj.profile
                   THEN EventDict ELSE EmptyDict,
         session |-> IF obj.isActionRunner /\ obj.profile
                     THEN SessionDict ELSE EmptyDict,
         error |-> a.error]

\* The DebugCallInfo that append_call_info builds; now is the value time()
\* returns at line 49.
NewCallInfo(a) ==
    LET debug_start_time == a.task_start_time - a.flow_start_time
        debug_end_time == a.now - a.flow_start_time
        debug_run_time == debug_end_time - debug_start_time
        obj == a.node.object
    IN  [run |-> a.active,
         profiler |-> [startTime |-> debug_start_time,
                       endTime |-> debug_end_time,
                       runTime |-> debug_run_time],
         input |-> [edge |-> a.input_edge, params |-> a.input_params],
         output |-> [edge |-> a.output_edge, results |-> a.output_params],
         init |-> a.node.init,
         profile |-> IF obj.isActionRunner /\ obj.profile
                     THEN ProfileDict ELSE EmptyDict,
         event |-> IF obj.isActionRunner /\ obj.event
                   THEN EventDict ELSE EmptyDict,
         session |-> IF obj.isActionRunner /\ obj.session
                     THEN SessionDict ELSE EmptyDict,
         error |-> a.error]

\* Variant: a call with an error raises, and a node that holds an error
\* records nothing more.
DebugNodeInfo_append_call_info_StopsOnError(self, a) ==
    IF a.error # None \/ CallsLoop(self.calls, 1)
    THEN [self |-> self, ret |-> FALSE, raised |-> TRUE]
    ELSE [self |-> [self EXCEPT !.calls = Append(@, NewCallInfo(a))],
          ret |-> FALSE,
          raised |-> FALSE]

\* Variant: the new call is inserted at the head of the list.
DebugNodeInfo_append_call_info_AtHead(self, a) ==
    [self |-> [self EXCEPT !.calls = <<NewCallInfo(a)>> \o @],
     ret |-> FALSE,
     raised |-> FALSE]

DebugNodeInfo_append_call_info(self, a) ==
    [self |-> [self EXCEPT !.calls = Append(@, NewCallInfo(a))],
     ret |-> FALSE,
     raised |-> FALSE]

\* DebugNodeInfo(id=..., profiler=...) with the default calls.
NewDebugNodeInfo(id) ==
    [id |-> id, calls |-> <<>>]

----------------------------------------------------------------------------
(* DebugInfo *)

\* Variant: the first activation of an edge replaces the whole edge map.
DebugInfo_add_debug_edge_info_NewMap(self, input_edge_id, active) ==
    [self |->
        IF input_edge_id # None
        THEN IF input_edge_id \notin DOMAIN self.edges
             THEN [self EXCEPT
                      !.edges = (input_edge_id :> [active |-> <<active>>])]
             ELSE [self EXCEPT
                      !.edges[input_edge_id].active = Append(@, active)]
        ELSE self,
     ret |-> FALSE,
     raised |-> FALSE]

\* Variant: a second activation replaces the edge's entry.
DebugInfo_add_debug_edge_info_Replace(self, input_edge_id, active) ==
    [self |->
        IF input_edge_id # None
        THEN [self EXCEPT
                 !.edges = (input_edge_id :> [active |-> <<active>>]) @@ @]
        ELSE self,
     ret |-> FALSE,
     raised |-> FALSE]

\* Variant: no test of the edge id against None.
DebugInfo_add_debug_edge_info_NoNoneTest(self, input_edge_id, active) ==
    [self |->
        IF input_edge_id \notin DOMAIN self.edges
        THEN [self EXCEPT
                 !.edges = @ @@ (input_edge_id :> [active |-> <<active>>])]
        ELSE [self EXCEPT
                 !.edges[input_edge_id].active = Append(@, active)],
     ret |-> FALSE,
     raised |-> FALSE]

DebugInfo_add_debug_edge_info(self, input_edge_id, active) ==
    [self |->
        IF input_edge_id # None
        THEN IF input_edge_id \notin DOMAIN self.edges
             THEN [self EXCEPT
                      !.edges = @ @@ (input_edge_id :> [active |-> <<active>>])]
             ELSE [self EXCEPT
                      !.edges[input_edge_id].active = Append(@, active)]
        ELSE self,
     ret |-> FALSE,
     raised |-> FALSE]

\* Variant: only nodes that have recorded a call count.
DebugInfo_has_nodes_WithCalls(self) ==
    [self |-> self,
     ret |-> \E n \in DOMAIN self.nodes : Len(self.nodes[n].calls) > 0,
     raised |-> FALSE]

DebugInfo_has_nodes(self) ==
    [self |-> self, ret |-> Cardinality(DOMAIN self.nodes) > 0, raised |-> FALSE]

\* The loop of DebugInfo.has_errors over self.nodes.items(), in the dict's
\* insertion order, from position i on.
RECURSIVE NodesLoop(_, _)
NodesLoop(self, i) ==
    IF i > Len(self.nodeOrder)
    THEN [self |-> self, ret |-> FALSE, raised |-> FALSE]
    ELSE LET id == self.nodeOrder[i]
             r == DebugNodeInfo_has_errors(self.nodes[id])
             s1 == [self EXCEPT !.nodes[id] = r.self]
         IN  IF r.ret
             THEN [self |-> s1, ret |-> TRUE, raised |-> FALSE]
             ELSE NodesLoop(s1, i + 1)

\* Variant: the loop returns the first node's answer.
DebugInfo_has_errors_FirstNode(self) ==
    LET f == FlowDebugInfo_has_errors(self.flow)
    IN  IF f.ret
        THEN [self |-> self, ret |-> TRUE, raised |-> FALSE]
        ELSE [self |-> self,
              ret |-> /\ Len(self.nodeOrder) > 0
                      /\ DebugNodeInfo_has_errors(
                             self.nodes[self.nodeOrder[1]]).ret,
              raised |-> FALSE]

\* Variant: the flow errors are consumed while they are tested.
DebugInfo_has_errors_Draining(self) ==
    LET f == FlowDebugInfo_has_errors(self.flow)
    IN  IF f.ret
        THEN [self |-> [self EXCEPT !.flow.error = <<>>],
              ret |-> TRUE, raised |-> FALSE]
        ELSE NodesLoop(self, 1)

DebugInfo_has_errors(self) ==
    LET f == FlowDebugInfo_has_errors(self.flow)
        s1 == [self EXCEPT !.flow = f.self]
    IN  IF f.ret
        THEN [self |-> s1, ret |-> TRUE, raised |-> FALSE]
        ELSE NodesLoop(s1, 1)

\* DebugInfo(timestamp=..., flow=FlowDebugInfo(...), event=...) with the
\* default nodes and edges.  nodeOrder is the insertion order of the keys of
\* the nodes dict.
NewDebugInfo ==
    [timestamp |-> 0,
     flow |-> [name |-> "unknown", error |-> <<>>],
     event |-> "event",
     nodes |-> EmptyMap,
     nodeOrder |-> <<>>,
     edges |-> EmptyMap]

----------------------------------------------------------------------------
(* The engine's calls into the recorder. *)

\* Sums over the trace, for the guards that bound a run.
RECURSIVE SumCalls(_, _)
SumCalls(self, S) ==
    IF S = {} THEN 0
    ELSE LET n == CHOOSE x \in S : TRUE
         IN  Len(self.nodes[n].calls) + SumCalls(self, S \ {n})

TotalCalls(self) == SumCalls(self, DOMAIN self.nodes)

RECURSIVE SumActive(_, _)
SumActive(self, S) ==
    IF S = {} THEN 0
    ELSE LET e == CHOOSE x \in S : TRUE
         IN  Len(self.edges[e].active) + SumActive(self, S \ {e})

TotalActive(self) == SumActive(self, DOMAIN self.edges)

\* The arguments of one append_call_info call, with the clock reading.
BaseArgs ==
    [flow_start_time |-> 0,
     task_start_time |-> 0,
     now |-> 0,
     node |-> [init |-> "init",
               object |-> [isActionRunner |-> TRUE, profile |-> TRUE,
                           event |-> TRUE, session |-> TRUE]],
     input_edge |-> "e1",
     input_params |-> "payload",
     output_edge |-> None,
     output_params |-> "payload",
     active |-> TRUE,
     error |-> None]

\* A call that differs from BaseArgs in the error only.
RunArgs(e) == [BaseArgs EXCEPT !.error = e]

\* A call that differs from BaseArgs in the clock readings, the node object
\* and the input.
DetailArgs(f, t, c, o, ie, ip) ==
    [BaseArgs EXCEPT !.flow_start_time = f, !.task_start_time = t, !.now = c,
                     !.node.object = o, !.input_edge = ie, !.input_params = ip]

NoOp ==
    [op |-> "init", node |-> None, edge |-> None, active |-> FALSE,
     args |-> BaseArgs, ret |-> FALSE, raised |-> FALSE]

Init ==
    /\ di = NewDebugInfo
    /\ other = NewDebugInfo
    /\ supplied = [e \in EdgeIds |-> <<>>]
    /\ lastOp = NoOp

\* The engine creates the node's entry on its first visit:
\* debug_info.nodes[id] = DebugNodeInfo(id=id, ...).
AddNode(n) ==
    /\ n \notin DOMAIN di.nodes
    /\ di' = [di EXCEPT !.nodes = @ @@ (n :> NewDebugNodeInfo(n)),
                        !.nodeOrder = Append(@, n)]
    /\ lastOp' = [NoOp EXCEPT !.op = "add_node", !.node = n]
    /\ UNCHANGED <<supplied, other>>

\* The engine records a flow-level error: debug_info.flow.error.append(...).
AddFlowError ==
    /\ Len(di.flow.error) < MaxFlowErrors
    /\ di' = [di EXCEPT !.flow.error = Append(@, "flow_err")]
    /\ lastOp' = [NoOp EXCEPT !.op = "add_flow_error"]
    /\ UNCHANGED <<supplied, other>>

\* debug_info.nodes[n].append_call_info(...)
RecordCall(n, a) ==
    /\ n \in DOMAIN di.nodes
    /\ LET r == DebugNodeInfo_append_call_info(di.nodes[n], a)
       IN  /\ di' = [di EXCEPT !.nodes[n] = r.self]
           /\ lastOp' = [NoOp EXCEPT !.op = "append_call_info", !.node = n,
                                     !.args = a, !.raised = r.raised]
    /\ UNCHANGED <<supplied, other>>

AppendCallInfo ==
    /\ TotalCalls(di) < MaxCalls
    /\ \E n \in NodeIds, e \in Errors : RecordCall(n, RunArgs(e))

\* debug_info.add_debug_edge_info(e, active)
AddDebugEdgeInfo ==
    \E e \in EdgeArgs, active \in BOOLEAN :
        /\ e # None => TotalActive(di) < MaxActive
        /\ LET r == DebugInfo_add_debug_edge_info(di, e, active)
           IN  /\ di' = r.self
               /\ lastOp' = [NoOp EXCEPT !.op = "add_debug_edge_info",
                                         !.edge = e, !.active = active,
                                         !.raised = r.raised]
        /\ supplied' = IF e # None
                       THEN [supplied EXCEPT ![e] = Append(@, active)]
                       ELSE supplied
        /\ UNCHANGED other

\* debug_info.has_nodes()
HasNodes ==
    LET r == DebugInfo_has_nodes(di)
    IN  /\ di' = r.self
        /\ lastOp' = [NoOp EXCEPT !.op = "has_nodes", !.ret = r.ret,
                                  !.raised = r.raised]
        /\ UNCHANGED <<supplied, other>>

\* debug_info.has_errors()
HasErrors ==
    LET r == DebugInfo_has_errors(di)
    IN  /\ di' = r.self
        /\ lastOp' = [NoOp EXCEPT !.op = "has_errors", !.ret = r.ret,
                                  !.raised = r.raised]
        /\ UNCHANGED <<supplied, other>>

\* debug_info.nodes[n].has_errors()
NodeHasErrors ==
    \E n \in DOMAIN di.nodes :
        LET r == DebugNodeInfo_has_errors(di.nodes[n])
        IN  /\ di' = [di EXCEPT !.nodes[n] = r.self]
            /\ lastOp' = [NoOp EXCEPT !.op = "node_has_errors", !.node = n,
                                      !.ret = r.ret, !.raised = r.raised]
            /\ UNCHANGED <<supplied, other>>

\* debug_info.flow.has_errors()
FlowHasErrors ==
    LET r == FlowDebugInfo_has_errors(di.flow)
    IN  /\ di' = [di EXCEPT !.flow = r.self]
        /\ lastOp' = [NoOp EXCEPT !.op = "flow_has_errors", !.ret = r.ret,
                                  !.raised = r.raised]
        /\ UNCHANGED <<supplied, other>>

AddSomeNode == \E n \in NodeIds : AddNode(n)

Next ==
    \/ AddSomeNode
    \/ AddFlowError
    \/ AppendCallInfo
    \/ AddDebugEdgeInfo
    \/ HasNodes
    \/ HasErrors
    \/ NodeHasErrors
    \/ FlowHasErrors

Spec == Init /\ [][Next]_vars

----------------------------------------------------------------------------
(* The call-record specification: one node, calls with every combination   *)
(* of clock readings, node object and input.                               *)

DetailNode == "n1"

AddDetailNode == AddNode(DetailNode)

AppendDetailCall ==
    /\ TotalCalls(di) < MaxDetailCalls
    /\ \E f \in Times, t \in Times, c \in Times, o \in NodeObjects,
          ie \in InputEdges, ip \in Params :
            RecordCall(DetailNode, DetailArgs(f, t, c, o, ie, ip))

NextCall ==
    \/ AddDetailNode
    \/ AppendDetailCall

SpecCall == Init /\ [][NextCall]_vars

----------------------------------------------------------------------------
(* The two-run specification: two DebugInfo instances, each created with    *)
(* the default nodes and edges, recording in any interleaving; one node id  *)
(* and one edge id per run.                                                 *)

Runs == {1, 2}
RunNode == "n1"
RunEdge == "e1"

\* Variant: the defaults are objects of the class, shared by its instances.
CopiesDefaults_ClassLevel == FALSE

\* The classes are pydantic models: a field's default ({} for nodes and
\* edges, [] for calls, active and error) is copied for every new instance,
\* so no two instances hold the same collection object.
CopiesDefaults == TRUE

\* The instance theirs, after the instance mine was written: a collection
\* the two hold in common shows the write.
SeenBy(theirs, mine) ==
    IF CopiesDefaults
    THEN theirs
    ELSE [theirs EXCEPT !.nodes = mine.nodes,
                        !.nodeOrder = mine.nodeOrder,
                        !.edges = mine.edges]

RunOf(r) == IF r = 1 THEN di ELSE other

\* Run r's instance becomes d.
WriteRun(r, d) ==
    /\ di' = IF r = 1 THEN d ELSE SeenBy(di, d)
    /\ other' = IF r = 2 THEN d ELSE SeenBy(other, d)

\* Run r creates its node entry.
RunAddNode ==
    \E r \in Runs :
        /\ RunNode \notin DOMAIN RunOf(r).nodes
        /\ WriteRun(r, [RunOf(r) EXCEPT
                           !.nodes = @ @@ (RunNode :> NewDebugNodeInfo(RunNode)),
                           !.nodeOrder = Append(@, RunNode)])
        /\ lastOp' = [NoOp EXCEPT !.op = "add_node", !.node = RunNode]
        /\ UNCHANGED supplied

\* Run r records a call: nodes[RunNode].append_call_info(...)
RunAppendCallInfo ==
    \E r \in Runs, e \in Errors :
        /\ RunNode \in DOMAIN RunOf(r).nodes
        /\ TotalCalls(RunOf(r)) < MaxRunCalls
        /\ LET c == DebugNodeInfo_append_call_info(
                        RunOf(r).nodes[RunNode], RunArgs(e))
           IN  /\ WriteRun(r, [RunOf(r) EXCEPT !.nodes[RunNode] = c.self])
               /\ lastOp' = [NoOp EXCEPT !.op = "append_call_info",
                                         !.node = RunNode,
                                         !.args = RunArgs(e),
                                         !.raised = c.raised]
        /\ UNCHANGED supplied

\* Run r records an activation: add_debug_edge_info(RunEdge, active)
RunAddDebugEdgeInfo ==
    \E r \in Runs, active \in BOOLEAN :
        /\ TotalActive(RunOf(r)) < MaxRunActive
        /\ LET c == DebugInfo_add_debug_edge_info(RunOf(r), RunEdge, active)
           IN  /\ WriteRun(r, c.self)
               /\ lastOp' = [NoOp EXCEPT !.op = "add_debug_edge_info",
                                         !.edge = RunEdge, !.active = active,
                                         !.raised = c.raised]
        /\ supplied' = IF r = 1
                       THEN [supplied EXCEPT ![RunEdge] = Append(@, active)]
                       ELSE supplied

NextRuns ==
    \/ RunAddNode
    \/ RunAppendCallInfo
    \/ RunAddDebugEdgeInfo

SpecRuns == Init /\ [][NextRuns]_vars

----------------------------------------------------------------------------
(* Properties of the recorder. *)

\* The calls of node n, and the call recorded last on the node of lastOp.
CallsOf(n) == di.nodes[n].calls
LastCall == CallsOf(lastOp.node)[Len(CallsOf(lastOp.node))]

\* Some error is recorded in the trace: a flow error, or a call with an error.
NodeErrorRecorded(n) ==
    \E i \in 1..Len(CallsOf(n)) : CallsOf(n)[i].error # None
AnyErrorRecorded ==
    \/ di.flow.error # <<>>
    \/ \E n \in DOMAIN di.nodes : NodeErrorRecorded(n)

Queries == {"has_nodes", "has_errors", "node_has_errors", "flow_has_errors"}

\* C1: in every reachable state DebugInfo.has_errors() is true iff the flow
\* trace has an error or some node trace has a call with an error, and so is
\* the answer the last has_errors() call returned; it is false for the empty
\* run.
C1_HasErrorsIffAnyError ==
    /\ DebugInfo_has_errors(di).ret = AnyErrorRecorded
    /\ lastOp.op = "has_errors" => lastOp.ret = AnyErrorRecorded
    /\ (DOMAIN di.nodes = {} /\ di.flow.error = <<>>)
          => ~DebugInfo_has_errors(di).ret

\* C1 witness: has_errors() has answered true in a run without flow errors
\* whose only error is on the second call of the node created second.
C1_Witness ==
    /\ lastOp.op = "has_errors" /\ lastOp.ret
    /\ di.flow.error = <<>>
    /\ Len(di.nodeOrder) = 2
    /\ ~NodeErrorRecorded(di.nodeOrder[1])
    /\ Len(CallsOf(di.nodeOrder[2])) = 2
    /\ CallsOf(di.nodeOrder[2])[1].error = None
    /\ CallsOf(di.nodeOrder[2])[2].error # None

\* C2: for every node trace, DebugNodeInfo.has_errors() is true iff at least
\* one of its calls carries a non-null error, and so is the answer the last
\* node-level has_errors() call returned; a node with no calls reports false.
C2_NodeHasErrorsIffSomeCallError ==
    /\ \A n \in DOMAIN di.nodes :
          /\ DebugNodeInfo_has_errors(di.nodes[n]).ret = NodeErrorRecorded(n)
          /\ CallsOf(n) = <<>> => ~DebugNodeInfo_has_errors(di.nodes[n]).ret
    /\ lastOp.op = "node_has_errors"
          => lastOp.ret = NodeErrorRecorded(lastOp.node)

\* C2 witness: a node's has_errors() has answered true for a node whose first
\* call has no error and whose second call has one.
C2_Witness ==
    /\ lastOp.op = "node_has_errors" /\ lastOp.ret
    /\ Len(CallsOf(lastOp.node)) = 2
    /\ CallsOf(lastOp.node)[1].error = None
    /\ CallsOf(lastOp.node)[2].error # None

\* C3: after any sequence of add_debug_edge_info calls with non-null edge
\* ids, every edge id has an entry iff a flag was supplied for it, and the
\* entry's activation list is exactly the flags supplied for it, in call
\* order.
C3_ActivationsAreSuppliedFlags ==
    \A e \in EdgeIds :
        /\ e \in DOMAIN di.edges <=> supplied[e] # <<>>
        /\ e \in DOMAIN di.edges => di.edges[e].active = supplied[e]

\* C3 witness: edge e1 was evaluated three times with true, false, true,
\* and the edge with the empty id once in between.
C3_Witness ==
    /\ "e1" \in DOMAIN di.edges
    /\ di.edges["e1"].active = <<TRUE, FALSE, TRUE>>
    /\ lastOp.op = "add_debug_edge_info" /\ lastOp.edge = "e1"

\* C5: the calls of a node only grow by appending: every step keeps every
\* node entry and every recorded call at its index with its contents, and an
\* append_call_info step lengthens the node's calls by exactly one, the new
\* call being the last one.
C5_CallsAppendOnly ==
    [][/\ \A n \in DOMAIN di.nodes :
             /\ n \in DOMAIN di'.nodes
             /\ Len(di'.nodes[n].calls) >= Len(di.nodes[n].calls)
             /\ SubSeq(di'.nodes[n].calls, 1, Len(di.nodes[n].calls))
                   = di.nodes[n].calls
       /\ lastOp'.op = "append_call_info" =>
             LET n == lastOp'.node
                 k == Len(di.nodes[n].calls)
             IN  /\ Len(di'.nodes[n].calls) = k + 1
                 /\ di'.nodes[n].calls[k + 1].error = lastOp'.args.error
                 /\ ~lastOp'.raised
      ]_vars

\* C5 witness: a call with an error was appended to a node that already
\* held a call without one.
C5_Witness ==
    /\ lastOp.op = "append_call_info"
    /\ Len(CallsOf(lastOp.node)) = 2
    /\ CallsOf(lastOp.node)[1].error = None
    /\ CallsOf(lastOp.node)[2].error # None

\* C6: add_debug_edge_info with a null edge id returns normally and leaves
\* the whole trace (edge map, node map, flow trace) unchanged, whatever the
\* flag.
C6_NullEdgeIsNoOp ==
    [][(lastOp'.op = "add_debug_edge_info" /\ lastOp'.edge = None)
          => (di' = di /\ ~lastOp'.raised)]_vars

\* C6 witness: add_debug_edge_info(None, true) was called on a trace that
\* holds an edge, a node with a call and a flow error.
C6_Witness ==
    /\ lastOp.op = "add_debug_edge_info" /\ lastOp.edge = None /\ lastOp.active
    /\ DOMAIN di.edges # {}
    /\ \E n \in DOMAIN di.nodes : CallsOf(n) # <<>>
    /\ di.flow.error # <<>>

\* C7: has_nodes() is false exactly when the node map is empty, whether or
\* not the nodes have calls, and so is the answer the last has_nodes() call
\* returned; with a flow error and no node, has_nodes() is false and
\* has_errors() is true.
C7_HasNodesIffNodeMapNonEmpty ==
    /\ DebugInfo_has_nodes(di).ret = (\E n \in NodeIds : n \in DOMAIN di.nodes)
    /\ lastOp.op = "has_nodes"
          => lastOp.ret = (\E n \in NodeIds : n \in DOMAIN di.nodes)
    /\ (DOMAIN di.nodes = {} /\ di.flow.error # <<>>)
          => (~DebugInfo_has_nodes(di).ret /\ DebugInfo_has_errors(di).ret)

\* C7 witness: has_nodes() has answered true while no node has a call.
C7_Witness ==
    /\ lastOp.op = "has_nodes" /\ lastOp.ret
    /\ DOMAIN di.nodes # {}
    /\ \A n \in DOMAIN di.nodes : CallsOf(n) = <<>>

\* C10: a query step (has_nodes, has_errors, a node's or the flow's
\* has_errors) leaves the trace unchanged, does not raise, and a query
\* repeated right after itself returns the same answer.
C10_QueriesAreReadOnly ==
    [][lastOp'.op \in Queries =>
          /\ di' = di
          /\ supplied' = supplied
          /\ ~lastOp'.raised
          /\ (lastOp.op = lastOp'.op /\ lastOp.node = lastOp'.node)
                => lastOp'.ret = lastOp.ret
      ]_vars

\* C10 witness: has_errors() has answered true on a trace that holds a flow
\* error, a node with a call and an edge.
C10_Witness ==
    /\ lastOp.op = "has_errors" /\ lastOp.ret
    /\ di.flow.error # <<>>
    /\ \E n \in DOMAIN di.nodes : CallsOf(n) # <<>>
    /\ DOMAIN di.edges # {}

----------------------------------------------------------------------------
(* Properties of one call record (SpecCall). *)

\* C4 as claimed: every call record has endTime >= startTime >= 0 and
\* runTime = endTime - startTime, with startTime = task_start_time -
\* flow_start_time and endTime = time() - flow_start_time, whatever the
\* clock returns.
C4_TimingLaw ==
    /\ \A n \in DOMAIN di.nodes : \A i \in 1..Len(CallsOf(n)) :
          LET p == CallsOf(n)[i].profiler
          IN  /\ p.endTime >= p.startTime
              /\ p.startTime >= 0
              /\ p.runTime = p.endTime - p.startTime
    /\ lastOp.op = "append_call_info" =>
          /\ LastCall.profiler.startTime
                = lastOp.args.task_start_time - lastOp.args.flow_start_time
          /\ LastCall.profiler.endTime
                = lastOp.args.now - lastOp.args.flow_start_time

\* C8 as claimed: a call recorded with a null input edge has no input
\* params, whatever payload was supplied.
C8_ParamsOnlyWithInputEdge ==
    (lastOp.op = "append_call_info" /\ lastOp.args.input_edge = None)
        => LastCall.input.params = None

\* The capability of C9: the node's object is a pluggable action instance
\* that exposes serializable profile, event and session state.
HasCapability(o) == o.isActionRunner /\ o.profile /\ o.event /\ o.session

\* C9 as claimed: the three snapshots are all captured iff the node's object
\* has the capability, and are all empty when it lacks it.
C9_AllOrNothingSnapshots ==
    lastOp.op = "append_call_info" =>
        LET o == lastOp.args.node.object
            c == LastCall
        IN  /\ (c.profile # EmptyDict /\ c.event # EmptyDict
                   /\ c.session # EmptyDict) <=> HasCapability(o)
            /\ ~HasCapability(o) =>
                  (c.profile = EmptyDict /\ c.event = EmptyDict
                      /\ c.session = EmptyDict)

\* C9 amended: each snapshot on its own is captured iff the node's object is
\* an ActionRunner and that sub-object (profile, event or session) is a
\* serializable model, and is the empty structure otherwise; the call is
\* recorded without an error in every case.
C9_EachSnapshotGatedAlone ==
    lastOp.op = "append_call_info" =>
        LET o == lastOp.args.node.object
            c == LastCall
        IN  /\ c.profile =
                  (IF o.isActionRunner /\ o.profile
                   THEN ProfileDict ELSE EmptyDict)
            /\ c.event =
                  (IF o.isActionRunner /\ o.event THEN EventDict ELSE EmptyDict)
            /\ c.session =
                  (IF o.isActionRunner /\ o.session
                   THEN SessionDict ELSE EmptyDict)
            /\ ~lastOp.raised

\* C9 witness: a call was recorded for an ActionRunner without a profile but
\* with an event and a session; the event is captured, the profile is empty.
C9_Witness ==
    /\ lastOp.op = "append_call_info"
    /\ lastOp.args.node.object.isActionRunner
    /\ ~lastOp.args.node.object.profile
    /\ lastOp.args.node.object.event
    /\ LastCall.profile = EmptyDict
    /\ LastCall.event = EventDict

----------------------------------------------------------------------------
(* Errors and frames of the recording operations. *)

\* The activation list of edge e in d; empty when e has no entry.
ActiveOf(d, e) == IF e \in DOMAIN d.edges THEN d.edges[e].active ELSE <<>>

\* C11: recording a call with an error is a normal operation, and a recorded
\* error stops nothing: an append_call_info step that carries an error, or
\* that follows a recorded error, does not raise and appends exactly the
\* call it was given (its error and its run flag) to the node's calls, and
\* an add_debug_edge_info step with a non-null id that follows a recorded
\* error does not raise and appends its flag to the edge's list.
C11_ErrorsDoNotStopRecording ==
    [][/\ (/\ lastOp'.op = "append_call_info"
           /\ (lastOp'.args.error # None \/ AnyErrorRecorded)) =>
             LET n == lastOp'.node
             IN  /\ ~lastOp'.raised
                 /\ \E c \in {di'.nodes[n].calls[Len(di'.nodes[n].calls)]} :
                       /\ di'.nodes[n].calls = Append(di.nodes[n].calls, c)
                       /\ c.error = lastOp'.args.error
                       /\ c.run = lastOp'.args.active
       /\ (/\ lastOp'.op = "add_debug_edge_info"
           /\ lastOp'.edge # None
           /\ AnyErrorRecorded) =>
             /\ ~lastOp'.raised
             /\ ActiveOf(di', lastOp'.edge)
                   = Append(ActiveOf(di, lastOp'.edge), lastOp'.active)
      ]_vars

\* C11 witness: an activation was recorded for edge e1 after a node had
\* recorded a call with an error and then a call without one.
C11_Witness ==
    /\ lastOp.op = "add_debug_edge_info" /\ lastOp.edge = "e1"
    /\ ActiveOf(di, "e1") # <<>>
    /\ \E n \in DOMAIN di.nodes :
          /\ Len(CallsOf(n)) = 2
          /\ CallsOf(n)[1].error # None
          /\ CallsOf(n)[2].error = None

\* C13: the error state only rises: a step from a state where has_errors()
\* is true leads to a state where it is true, and a node whose has_errors()
\* is true keeps its entry and its has_errors() stays true.
C13_ErrorsAreMonotone ==
    [][/\ DebugInfo_has_errors(di).ret => DebugInfo_has_errors(di').ret
       /\ \A n \in DOMAIN di.nodes :
             DebugNodeInfo_has_errors(di.nodes[n]).ret =>
                 /\ n \in DOMAIN di'.nodes
                 /\ DebugNodeInfo_has_errors(di'.nodes[n]).ret
      ]_vars

\* C13 witness: a call without an error was appended after a call with one,
\* in a run without flow errors, and has_errors() is true for the node and
\* for the run.
C13_Witness ==
    /\ lastOp.op = "append_call_info" /\ lastOp.args.error = None
    /\ di.flow.error = <<>>
    /\ Len(CallsOf(lastOp.node)) = 2
    /\ CallsOf(lastOp.node)[1].error # None
    /\ DebugNodeInfo_has_errors(di.nodes[lastOp.node]).ret
    /\ DebugInfo_has_errors(di).ret

\* C14: a recording step touches its target only.  An append_call_info step
\* on node n keeps the keys of the node map and their order, every other
\* node's entry, the edge map and the flow trace.  An add_debug_edge_info
\* step with a non-null id e keeps every other edge's entry (adding e's if
\* absent), the node map and the flow trace, and so the answers of
\* has_errors() and has_nodes().
C14_RecordingTouchesOnlyItsTarget ==
    [][/\ lastOp'.op = "append_call_info" =>
             /\ DOMAIN di'.nodes = DOMAIN di.nodes
             /\ di'.nodeOrder = di.nodeOrder
             /\ \A m \in DOMAIN di.nodes \ {lastOp'.node} :
                   di'.nodes[m] = di.nodes[m]
             /\ di'.edges = di.edges
             /\ di'.flow = di.flow
       /\ (lastOp'.op = "add_debug_edge_info" /\ lastOp'.edge # None) =>
             /\ DOMAIN di'.edges = DOMAIN di.edges \cup {lastOp'.edge}
             /\ \A f \in DOMAIN di.edges \ {lastOp'.edge} :
                   di'.edges[f] = di.edges[f]
             /\ di'.nodes = di.nodes
             /\ di'.nodeOrder = di.nodeOrder
             /\ di'.flow = di.flow
             /\ DebugInfo_has_errors(di').ret = DebugInfo_has_errors(di).ret
             /\ DebugInfo_has_nodes(di').ret = DebugInfo_has_nodes(di).ret
      ]_vars

\* C14 witness: the first activation of edge e1 was recorded while the edge
\* with the empty id had an entry and a node held a call with an error.
C14_Witness ==
    /\ lastOp.op = "add_debug_edge_info" /\ lastOp.edge = "e1"
    /\ Len(ActiveOf(di, "e1")) = 1
    /\ ActiveOf(di, "") # <<>>
    /\ \E n \in DOMAIN di.nodes : NodeErrorRecorded(n)

----------------------------------------------------------------------------
(* Properties of two concurrent runs (SpecRuns). *)

====
